---- MODULE Spec2Model ----
(***************************************************************************)
(* A model of ttk::TopologicalCompression                                  *)
(* (core/base/topologicalCompression/TopologicalCompression.cpp):          *)
(*   - the compact segmentation codec (WriteCompactSegmentation /          *)
(*     ReadCompactSegmentation), stepped one loop iteration at a time;     *)
(*   - the persistence index codec (WritePersistenceIndex /                *)
(*     ReadPersistenceIndex);                                              *)
(*   - the ZFP adapter (CompressWithZFP).                                  *)
(*                                                                         *)
(* A C++ `int` is modelled by its 32-bit two's-complement pattern, the set *)
(* of the positions of its 1 bits (a subset of 0..31): shifts move the     *)
(* set, | is union, & is intersection, "< 0" is "bit 31 is set".           *)
(* Values stored in the file and in the segmentation vectors are integers  *)
(* in -2^31 .. 2^31-1; ToBits / FromBits convert.                          *)
(***************************************************************************)
EXTENDS Integers, Sequences, FiniteSets, TLC

\* ------------------------------------------------------------ bounds
\* Largest numberOfVertices tried.
MaxN == 34
\* ... and in the runs checked for termination.
MaxLiveN == 34
\* How many trailing stream items the environment may cut off before a decode.
MaxDrop == 2
\* How far past the end of the segmentation vector a loop may run before the
\* process is taken to have faulted (only a zero bit width runs that far).
MaxOverrun == 32
\* Longest mapping table and longest constraint list tried.
MaxMapping == 2
MaxConstraints == 2
\* Largest grid dimension and largest backend byte count tried.
MaxDim == 3
MaxZfpBytes == 3

\* ------------------------------------------------------------ program constants
\* The container width tested by "offset + numberOfBitsPerSegment <= 32".
WordBits == 32
\* sizeof(int), sizeof(double) on the platforms TTK builds for.
SizeofInt == 4
SizeofDouble == 8
\* UINT_MAX is the all-ones 32-bit pattern; it is written here as the
\* representative -1 of its residue class modulo 2^32.
UINT_MAX == -1
\* Return codes of the segmentation codec.
ErrZeroWidth == -2
ErrWideWidth == -3

\* ------------------------------------------------------------ 32-bit ints
BitPos == 0 .. (WordBits - 1)
SignBit == WordBits - 1

RECURSIVE NatBits(_, _)
\* The 1 bits of v >= 0, the lowest at position b.
NatBits(v, b) ==
  IF v = 0 THEN {}
  ELSE (IF v % 2 = 1 THEN {b} ELSE {}) \cup NatBits(v \div 2, b + 1)

RECURSIVE HalfPow(_)
\* 2^n for n <= 30.
HalfPow(n) == IF n = 0 THEN 1 ELSE 2 * HalfPow(n - 1)

\* The bit pattern of the int v.
ToBits(v) ==
  IF v >= 0 THEN NatBits(v, 0)
  ELSE NatBits((v + HalfPow(30)) + HalfPow(30), 0) \cup {SignBit}

RECURSIVE LowVal(_, _)
\* The number whose bits are those of x at positions b .. 30, moved down by b.
LowVal(x, b) ==
  IF b >= SignBit THEN 0
  ELSE (IF b \in x THEN 1 ELSE 0) + 2 * LowVal(x, b + 1)

\* The int with bit pattern x.
FromBits(x) ==
  IF SignBit \in x THEN (LowVal(x, 0) - HalfPow(30)) - HalfPow(30)
  ELSE LowVal(x, 0)

\* x << k, for a shift count 0 <= k < 32 (bits shifted out are lost).
Shl(x, k) == {b + k : b \in x} \cap BitPos

\* x >> k, for a shift count 0 <= k < 32: arithmetic for a negative x.
Shr(x, k) ==
  ({b - k : b \in x} \cap BitPos)
    \cup (IF SignBit \in x THEN {b \in BitPos : b >= WordBits - k} ELSE {})

\* x & 2147483647
ClearSign(x) == x \ {SignBit}

\* unsigned u + 1 (UINT_MAX + 1 wraps to 0), with the + 1 left out ...
U32Same(u) == u

\* ... and as the code has it.
U32Succ(u) == IF u = UINT_MAX THEN 0 ELSE u + 1

\* unsigned u > 32
UGtWord(u) == u < 0 \/ u > WordBits

RECURSIVE log2iter(_, _)
log2iter(val, ret) ==
  IF val > 1 THEN log2iter(val \div 2, ret + 1) ELSE ret

LogOfOneIsOne(val) ==
  IF val = 0 THEN UINT_MAX ELSE IF val = 1 THEN 1 ELSE log2iter(val, 0)

\* TopologicalCompression::log2
log2(val) ==
  IF val = 0 THEN UINT_MAX ELSE IF val = 1 THEN 0 ELSE log2iter(val, 0)

\* unsigned int numberOfBitsPerSegment = log2(numberOfSegments) + 1;
BitsPerSegment(numberOfSegments) == U32Succ(log2(numberOfSegments))


\* ------------------------------------------------------------ state
VARIABLES
  pc,                \* where the modelled call stands
  numberOfVertices,  \* the encoder's argument N
  numberOfSegments,  \* the encoder's argument S
  segmentation,      \* the encoder's input vector, of size N
  tail,              \* what a read past the end of that vector yields in this run
  file,              \* the stream: a sequence of items [sz, v]
  run,               \* 1: first encode of the input, 2: encode run again
  firstOut,          \* the stream the first encode left, kept for the second
  dropped,           \* items the environment cut off the end of the stream
  enc,               \* locals of WriteCompactSegmentation
  dec,               \* locals of ReadCompactSegmentation
  decoded,           \* the decoder's output vector
  idx,               \* the persistence index codec
  zfp                \* CompressWithZFP

vars ==
  <<pc, numberOfVertices, numberOfSegments, segmentation, tail, file, run,
    firstOut, dropped, enc, dec, decoded, idx, zfp>>

\* ------------------------------------------------------------ the stream
\* Write(fm, int) appends sizeof(int) bytes; Write(fm, double) sizeof(double).
IntItem(v) == [sz |-> SizeofInt, v |-> v]
DoubleItem(v) == [sz |-> SizeofDouble, v |-> v]

\* Read<T>(fm) with the cursor before item pos: fails when the stream has ended.
CanRead(f, pos) == pos <= Len(f)

\* The header the caller writes ahead of the packed words.
Header(N, S) == <<IntItem(N), IntItem(S)>>

\* ------------------------------------------------------------ inputs
\* The segment counts tried: -1 and 1 (w = 1), 0 (no width), 2 and 3 (w = 2),
\* 4 and 5 (w = 3), 65537 (w = 17), 2097153 (w = 22) and 67108865 (w = 27).
SegCounts == {-1, 0, 1, 2, 3, 4, 5, 65537, 2097153, 67108865}
\* Segment vectors: ascending ids, descending ids, the largest id everywhere.
Patterns == {0, 1, 2}
SegValue(p, i, S) ==
  IF S <= 1 THEN 0
  ELSE IF p = 0 THEN i % S
  ELSE IF p = 1 THEN (S - 1) - (i % S)
  ELSE S - 1
\* What lies behind the vector in memory: zeros, or all ones.
TailValues == {0, -1}

\* segmentation[i] for the 0-based index i; an index past the end reads `tail`.
SegAt(i) ==
  IF i < Len(segmentation) THEN segmentation[i + 1] ELSE tail

\* ------------------------------------------------------------ encoder
\* The locals of WriteCompactSegmentation, and what the call has done so far:
\* maxIndexRead is the greatest index segmentation[] was read at (-1: none),
\* shifts the counts its shifts were executed with, and trace the locals as they
\* stood each time a word was written.
EncIdle ==
  [bits |-> 0, currentCell |-> 0, offset |-> 0, maskerRank |-> 0,
   compressedInt |-> {}, numberOfBytesWritten |-> 0, ret |-> 0,
   maxIndexRead |-> -1, shifts |-> {}, trace |-> <<>>]

\* The greater of two indices.
MaxOf(a, b) == IF a > b THEN a ELSE b

\* The locals at a Write: offset, currentCell, whether a segment is carried into
\* the next word, and whether the word was the one written before the break.
WordMark(offset, currentCell, maskerRank, last) ==
  [offset |-> offset, currentCell |-> currentCell, carry |-> maskerRank # 0,
   last |-> last]

\* compressedInt |= (currentSegment << offset)
WPlace(compressedInt, currentSegment, offset) ==
  compressedInt \cup Shl(currentSegment, offset)

\* compressedInt |= currentSegment >> (numberOfBitsPerSegment - offset)
\* The count of that shift, with the operands the wrong way round ...
WCarryCountSwapped(bits, offset) == offset - bits

\* ... and as the code has it.
WCarryCount(bits, offset) == bits - offset

WCarry(compressedInt, currentSegment, bits, offset) ==
  compressedInt \cup Shr(currentSegment, WCarryCount(bits, offset))

\* offset += numberOfBitsPerSegment; offset %= 32
WrapOffset(offset, bits) == (offset + bits) % WordBits

\* Entry: the width is derived and checked, the locals are set.
W_Begin ==
  /\ pc \in {"idle", "w_again"}
  /\ \E t \in TailValues : tail' = t
  /\ LET bits == BitsPerSegment(numberOfSegments) IN
       IF UGtWord(bits)
       THEN /\ enc' = [EncIdle EXCEPT !.bits = bits, !.ret = ErrWideWidth]
            /\ pc' = "w_done"
       ELSE /\ enc' = [EncIdle EXCEPT !.bits = bits]
            /\ pc' = "w_outer"
  /\ UNCHANGED <<numberOfVertices, numberOfSegments, segmentation, file, run,
                 firstOut, dropped, dec, decoded, idx, zfp>>

\* while(currentCell < numberOfVertices) { int compressedInt = 0; ...
W_Outer ==
  /\ pc = "w_outer"
  /\ IF enc.currentCell < numberOfVertices
     THEN /\ enc' = [enc EXCEPT !.compressedInt = {}]
          /\ pc' = "w_inner"
     ELSE /\ enc' = [enc EXCEPT !.ret = enc.numberOfBytesWritten]
          /\ pc' = "w_done"
  /\ UNCHANGED <<numberOfVertices, numberOfSegments, segmentation, tail, file,
                 run, firstOut, dropped, dec, decoded, idx, zfp>>

\* One pass of while(offset + numberOfBitsPerSegment <= 32).
W_Inner ==
  /\ pc = "w_inner"
  /\ enc.offset + enc.bits <= WordBits
  /\ enc.currentCell < numberOfVertices + MaxOverrun
  /\ LET currentSegment == ToBits(SegAt(enc.currentCell)) IN
       IF enc.maskerRank # 0
       THEN enc' = [enc EXCEPT
                      !.compressedInt =
                         WCarry(enc.compressedInt, currentSegment, enc.bits,
                                enc.offset),
                      !.maskerRank = 0,
                      !.currentCell = enc.currentCell + 1,
                      !.maxIndexRead =
                         MaxOf(enc.maxIndexRead, enc.currentCell),
                      !.shifts =
                         enc.shifts \cup {WCarryCount(enc.bits, enc.offset)}]
       ELSE enc' = [enc EXCEPT
                      !.compressedInt =
                         WPlace(enc.compressedInt, currentSegment, enc.offset),
                      !.offset = enc.offset + enc.bits,
                      !.currentCell = enc.currentCell + 1,
                      !.maxIndexRead =
                         MaxOf(enc.maxIndexRead, enc.currentCell),
                      !.shifts = enc.shifts \cup {enc.offset}]
  /\ UNCHANGED <<pc, numberOfVertices, numberOfSegments, segmentation, tail,
                 file, run, firstOut, dropped, dec, decoded, idx, zfp>>

\* The inner loop never leaves (a zero width): it reads on past the vector
\* until the process faults.
W_Fault ==
  /\ pc = "w_inner"
  /\ enc.offset + enc.bits <= WordBits
  /\ enc.currentCell >= numberOfVertices + MaxOverrun
  /\ pc' = "w_fault"
  /\ UNCHANGED <<numberOfVertices, numberOfSegments, segmentation, tail, file,
                 run, firstOut, dropped, enc, dec, decoded, idx, zfp>>

\* if(currentCell >= numberOfVertices) { Write(fm, compressedInt); break; }
W_Last ==
  /\ pc = "w_inner"
  /\ enc.offset + enc.bits > WordBits
  /\ enc.currentCell >= numberOfVertices
  /\ file' = Append(file, IntItem(FromBits(enc.compressedInt)))
  /\ enc' = [enc EXCEPT
               !.numberOfBytesWritten = enc.numberOfBytesWritten + SizeofInt,
               !.ret = enc.numberOfBytesWritten + SizeofInt,
               !.trace =
                  Append(enc.trace,
                         WordMark(enc.offset, enc.currentCell, enc.maskerRank,
                                  TRUE))]
  /\ pc' = "w_done"
  /\ UNCHANGED <<numberOfVertices, numberOfSegments, segmentation, tail, run,
                 firstOut, dropped, dec, decoded, idx, zfp>>

\* The next segment is begun in what is left of the container, and the
\* container is dumped.
W_Split ==
  /\ pc = "w_inner"
  /\ enc.offset + enc.bits > WordBits
  /\ enc.currentCell < numberOfVertices
  /\ LET currentSegment == ToBits(SegAt(enc.currentCell))
         full == enc.offset = WordBits
         word == IF full THEN enc.compressedInt
                 ELSE WPlace(enc.compressedInt, currentSegment, enc.offset)
         maskerRank == IF full THEN enc.maskerRank ELSE WordBits - enc.offset
         offset == IF full THEN enc.offset % WordBits
                   ELSE WrapOffset(enc.offset, enc.bits)
     IN /\ file' = Append(file, IntItem(FromBits(word)))
        /\ enc' = [enc EXCEPT
                     !.compressedInt = word,
                     !.maskerRank = maskerRank,
                     !.offset = offset,
                     !.numberOfBytesWritten =
                        enc.numberOfBytesWritten + SizeofInt,
                     !.maxIndexRead =
                        MaxOf(enc.maxIndexRead, enc.currentCell),
                     !.shifts =
                        IF full THEN enc.shifts
                        ELSE enc.shifts \cup {enc.offset},
                     !.trace =
                        Append(enc.trace,
                               WordMark(offset, enc.currentCell, maskerRank,
                                        FALSE))]
  /\ pc' = "w_outer"
  /\ UNCHANGED <<numberOfVertices, numberOfSegments, segmentation, tail, run,
                 firstOut, dropped, dec, decoded, idx, zfp>>

\* The same input is encoded a second time, into a fresh stream.
W_Again ==
  /\ pc = "w_done"
  /\ run = 1
  /\ dropped = 0
  /\ firstOut' = file
  /\ file' = Header(numberOfVertices, numberOfSegments)
  /\ run' = 2
  /\ enc' = EncIdle
  /\ pc' = "w_again"
  /\ UNCHANGED <<numberOfVertices, numberOfSegments, segmentation, tail,
                 dropped, dec, decoded, idx, zfp>>

\* The environment cuts the last item off the stream.
Truncate ==
  /\ pc = "w_done"
  /\ run = 1
  /\ dropped < MaxDrop
  /\ file # <<>>
  /\ file' = SubSeq(file, 1, Len(file) - 1)
  /\ dropped' = dropped + 1
  /\ UNCHANGED <<pc, numberOfVertices, numberOfSegments, segmentation, tail,
                 run, firstOut, enc, dec, decoded, idx, zfp>>

\* ------------------------------------------------------------ decoder
DecIdle ==
  [from |-> "none", pos |-> 1, N |-> 0, S |-> 0, bits |-> 0,
   currentCell |-> 0, offset |-> 0, maskerRank |-> 0,
   oldCompressedInt |-> {}, compressedInt |-> {}, numberOfBytesRead |-> 0,
   ret |-> 0, shifts |-> {}]

\* if(currentSegment < 0) { &= 2147483647; >>= (32 - bits); |= 1 << (bits - 1) }
\* else >>= (32 - bits)
DownNoSign(currentSegment, bits) ==
  Shr(ClearSign(currentSegment), WordBits - bits)

Down(currentSegment, bits) ==
  IF SignBit \in currentSegment
  THEN Shr(ClearSign(currentSegment), WordBits - bits) \cup {bits - 1}
  ELSE Shr(currentSegment, WordBits - bits)

\* The counts of the shifts Down executes.
DownShifts(currentSegment, bits) ==
  IF SignBit \in currentSegment THEN {WordBits - bits, bits - 1}
  ELSE {WordBits - bits}

\* A segment that lies inside the container: shifted up to the top, then down.
RField(compressedInt, offset, bits) ==
  Down(Shl(compressedInt, (WordBits - offset) - bits), bits)

RFieldShifts(compressedInt, offset, bits) ==
  {(WordBits - offset) - bits}
    \cup DownShifts(Shl(compressedInt, (WordBits - offset) - bits), bits)

\* The high part of a split segment, found at the bottom of the container.
RHigh(compressedInt, offset, bits) ==
  Down(Shl(compressedInt, WordBits - offset), bits)

RHighShifts(compressedInt, offset, bits) ==
  {WordBits - offset} \cup DownShifts(Shl(compressedInt, WordBits - offset), bits)

\* The low part of a split segment, found at the top of the previous container.
ROld(oldCompressedInt, maskerRank) ==
  IF SignBit \in oldCompressedInt
  THEN Shr(ClearSign(oldCompressedInt), maskerRank)
         \cup {(WordBits - maskerRank) - 1}
  ELSE Shr(oldCompressedInt, maskerRank)

ROldShifts(oldCompressedInt, maskerRank) ==
  IF SignBit \in oldCompressedInt
  THEN {maskerRank, (WordBits - maskerRank) - 1}
  ELSE {maskerRank}

\* The width check of the decoder (a build without TTK_ENABLE_KAMIKAZE).
RejectCode(bits) ==
  IF bits = 0 THEN ErrZeroWidth
  ELSE IF UGtWord(bits) THEN ErrWideWidth
  ELSE 0

\* The locals after the header is read from f and the width is checked, when the
\* header is there: with one packed word read ahead of the check ...
RBeginEager(f, from) ==
  LET bits == BitsPerSegment(f[2].v) IN
    [DecIdle EXCEPT !.from = from, !.N = f[1].v, !.S = f[2].v, !.bits = bits,
                    !.pos = 4, !.numberOfBytesRead = 3 * SizeofInt,
                    !.ret = RejectCode(bits)]

\* ... and as the code has it.
RBegin(f, from) ==
  LET bits == BitsPerSegment(f[2].v) IN
    [DecIdle EXCEPT !.from = from, !.N = f[1].v, !.S = f[2].v, !.bits = bits,
                    !.pos = 3, !.numberOfBytesRead = 2 * SizeofInt,
                    !.ret = RejectCode(bits)]

\* Entry of ReadCompactSegmentation on the stream as it stands.
R_Begin ==
  /\ pc \in {"idle", "w_done"}
  /\ run = 1
  /\ decoded' = <<>>
  /\ IF ~CanRead(file, 2)
     THEN /\ dec' = [DecIdle EXCEPT !.from = pc, !.pos = Len(file) + 1,
                                    !.numberOfBytesRead = 2 * SizeofInt]
          /\ pc' = "r_failed"
     ELSE /\ dec' = RBegin(file, pc)
          /\ pc' = IF dec'.ret < 0 THEN "r_done" ELSE "r_outer"
  /\ UNCHANGED <<numberOfVertices, numberOfSegments, segmentation, tail, file,
                 run, firstOut, dropped, enc, idx, zfp>>

\* What a failed Read<int> of a packed word makes of the call: the decoder
\* goes on with the container it had ...
WordReadIgnored == "r_inner"

\* ... or, as Read is specified, the failure passes to the caller.
WordReadFailure == "r_failed"

\* while(currentCell < numberOfVertices) { compressedInt = Read<int>(fm); ...
R_Outer ==
  /\ pc = "r_outer"
  /\ IF dec.currentCell < dec.N
     THEN IF CanRead(file, dec.pos)
          THEN /\ dec' = [dec EXCEPT
                            !.compressedInt = ToBits(file[dec.pos].v),
                            !.pos = dec.pos + 1,
                            !.numberOfBytesRead =
                               dec.numberOfBytesRead + SizeofInt]
               /\ pc' = "r_inner"
          ELSE /\ dec' = [dec EXCEPT
                            !.numberOfBytesRead =
                               dec.numberOfBytesRead + SizeofInt]
               /\ pc' = WordReadFailure
     ELSE /\ dec' = [dec EXCEPT !.ret = dec.numberOfBytesRead]
          /\ pc' = "r_done"
  /\ UNCHANGED <<numberOfVertices, numberOfSegments, segmentation, tail, file,
                 run, firstOut, dropped, enc, decoded, idx, zfp>>

\* One pass of while(offset + numberOfBitsPerSegment <= 32).
R_Inner ==
  /\ pc = "r_inner"
  /\ dec.offset + dec.bits <= WordBits
  /\ Len(decoded) < dec.N + MaxOverrun
  /\ IF dec.maskerRank = 0
     THEN /\ decoded' =
               Append(decoded,
                      FromBits(RField(dec.compressedInt, dec.offset, dec.bits)))
          /\ dec' = [dec EXCEPT
                       !.offset = dec.offset + dec.bits,
                       !.currentCell = dec.currentCell + 1,
                       !.shifts =
                          dec.shifts
                            \cup RFieldShifts(dec.compressedInt, dec.offset,
                                              dec.bits)]
     ELSE LET nextSegment == RHigh(dec.compressedInt, dec.offset, dec.bits)
              old == ROld(dec.oldCompressedInt, dec.maskerRank)
          IN /\ decoded' = Append(decoded, FromBits(nextSegment \cup old))
             /\ dec' = [dec EXCEPT
                          !.oldCompressedInt = old,
                          !.maskerRank = 0,
                          !.currentCell = dec.currentCell + 1,
                          !.shifts =
                             dec.shifts
                               \cup RHighShifts(dec.compressedInt, dec.offset,
                                                dec.bits)
                               \cup ROldShifts(dec.oldCompressedInt,
                                               dec.maskerRank)]
  /\ UNCHANGED <<pc, numberOfVertices, numberOfSegments, segmentation, tail,
                 file, run, firstOut, dropped, enc, idx, zfp>>

\* offset += numberOfBitsPerSegment; offset %= 32, with the modulo left out ...
RWrapOffsetNoModulo(offset, bits) == offset + bits

\* ... and as the code has it.
RWrapOffset(offset, bits) == (offset + bits) % WordBits

\* if(offset == 32) maskerRank = 0; else maskerRank = offset; with the test
\* left out ...
RCarryRankUntested(offset) == offset

\* ... and as the code has it.
RCarryRank(offset) == IF offset = WordBits THEN 0 ELSE offset

\* The container is used up: what is left of it carries into the next one.
R_Carry ==
  /\ pc = "r_inner"
  /\ dec.offset + dec.bits > WordBits
  /\ dec' = [dec EXCEPT
               !.oldCompressedInt = dec.compressedInt,
               !.maskerRank = RCarryRank(dec.offset),
               !.offset = IF dec.offset = WordBits THEN dec.offset % WordBits
                          ELSE RWrapOffset(dec.offset, dec.bits)]
  /\ pc' = "r_outer"
  /\ UNCHANGED <<numberOfVertices, numberOfSegments, segmentation, tail, file,
                 run, firstOut, dropped, enc, decoded, idx, zfp>>

\* ------------------------------------------------------------ index codec
\* The values, vertex ids and (id, type) pairs the tables are drawn from.
MappingValues == {0, 1}
MappingIds == {0, 1}
ConstraintValues == {0, 1, 2}
ConstraintKinds == {<<0, 1>>, <<1, 0>>}
\* What the caller's min and max may hold before the call.
EntryValues == {-1, 9}

\* Every sequence over S of length at most n.
SeqsUpTo(S, n) == UNION {[1 .. k -> S] : k \in 0 .. n}

\* mapping: tuples (value, vertexId); constraints: (vertexId, value, type).
MappingTables ==
  SeqsUpTo({<<v, id>> : v \in MappingValues, id \in MappingIds}, MaxMapping)
ConstraintLists ==
  SeqsUpTo({<<k[1], v, k[2]>> : k \in ConstraintKinds, v \in ConstraintValues},
           MaxConstraints)

IdxIdle ==
  [mapping |-> <<>>, constraints |-> <<>>, i |-> 0,
   numberOfBytesWritten |-> 0, wret |-> 0,
   pos |-> 1, mappingSize |-> 0, mappings |-> <<>>,
   mappingsSortedPerValue |-> <<>>, outConstraints |-> <<>>,
   min |-> 0, max |-> 0, nbConstraints |-> 0, numberOfBytesRead |-> 0,
   rret |-> 0, entryMin |-> 0, entryMax |-> 0]

\* The comparators of the two sorts: by vertex id, and by value, ascending.
cmp(a, b) == a[2] < b[2]
cmp2(a, b) == a[1] < b[1]

\* Every arrangement of the elements of s.
Arrangements(s) ==
  LET n == Len(s)
      perms == {f \in [1 .. n -> 1 .. n] : \A i, j \in 1 .. n : i # j => f[i] # f[j]}
  IN {[i \in 1 .. n |-> s[f[i]]] : f \in perms}

\* What std::sort(.., cmp) may leave of s: any arrangement of its elements in
\* which no element is before one that cmp puts before it (the sort is not
\* stable, so equal keys may come in any order).
SortByCmp(s) ==
  {q \in Arrangements(s) : \A i, j \in 1 .. Len(s) : i < j => ~cmp(q[j], q[i])}

\* The same for std::sort(.., cmp2).
SortByCmp2(s) ==
  {q \in Arrangements(s) : \A i, j \in 1 .. Len(s) : i < j => ~cmp2(q[j], q[i])}

\* if(i == 0) min = value; if(value < min) min = value; ... with the
\* initialisation from the first constraint left out ...
TrackMinNoInit(i, value, min) == IF value < min THEN value ELSE min

\* ... and as the code has it.
TrackMin(i, value, min) ==
  LET m0 == IF i = 0 THEN value ELSE min IN
    IF value < m0 THEN value ELSE m0

\* if(i == 0) max = value; if(value > max) max = value;
TrackMax(i, value, max) ==
  LET m0 == IF i = 0 THEN value ELSE max IN
    IF value > m0 THEN value ELSE m0

SegVars ==
  <<numberOfVertices, numberOfSegments, segmentation, tail, run, firstOut,
    dropped, enc, dec, decoded>>

\* WritePersistenceIndex, entry: Write(fm, mappingSize)
WPI_Begin ==
  /\ pc = "i_idle"
  /\ file' = Append(file, IntItem(Len(idx.mapping)))
  /\ idx' = [idx EXCEPT !.i = 0, !.numberOfBytesWritten = SizeofInt]
  /\ pc' = "wi_mapping"
  /\ UNCHANGED <<SegVars, zfp>>

\* One pass of the loop over the mapping: Write(fm, idv); Write(fm, value)
WPI_Mapping ==
  /\ pc = "wi_mapping"
  /\ idx.i < Len(idx.mapping)
  /\ LET t == idx.mapping[idx.i + 1] IN
       file' = file \o <<IntItem(t[2]), DoubleItem(t[1])>>
  /\ idx' = [idx EXCEPT
               !.i = idx.i + 1,
               !.numberOfBytesWritten =
                  idx.numberOfBytesWritten + SizeofInt + SizeofDouble]
  /\ UNCHANGED <<pc, SegVars, zfp>>

\* Write(fm, nbConstraints)
WPI_NbConstraints ==
  /\ pc = "wi_mapping"
  /\ idx.i >= Len(idx.mapping)
  /\ file' = Append(file, IntItem(Len(idx.constraints)))
  /\ idx' = [idx EXCEPT
               !.i = 0,
               !.numberOfBytesWritten = idx.numberOfBytesWritten + SizeofInt]
  /\ pc' = "wi_constraints"
  /\ UNCHANGED <<SegVars, zfp>>

\* The bytes counted for one constraint: sizeof(int) for idVertex,
\* sizeof(double) for value, sizeof(int) for vertexType; with the last one
\* forgotten ...
ConstraintBytesNoType == SizeofInt + SizeofDouble

\* ... and as the code has it.
ConstraintBytes == SizeofInt + SizeofDouble + SizeofInt

\* One pass of the loop over the constraints.
WPI_Constraint ==
  /\ pc = "wi_constraints"
  /\ idx.i < Len(idx.constraints)
  /\ LET t == idx.constraints[idx.i + 1] IN
       file' = file \o <<IntItem(t[1]), DoubleItem(t[2]), IntItem(t[3])>>
  /\ idx' = [idx EXCEPT
               !.i = idx.i + 1,
               !.numberOfBytesWritten =
                  idx.numberOfBytesWritten + ConstraintBytes]
  /\ UNCHANGED <<pc, SegVars, zfp>>

\* return numberOfBytesWritten;
WPI_Return ==
  /\ pc = "wi_constraints"
  /\ idx.i >= Len(idx.constraints)
  /\ idx' = [idx EXCEPT !.wret = idx.numberOfBytesWritten]
  /\ pc' = "wi_done"
  /\ UNCHANGED <<file, SegVars, zfp>>

\* ReadPersistenceIndex, entry: mappingSize = Read<int>(fm)
RPI_Begin ==
  /\ pc = "wi_done"
  /\ IF CanRead(file, 1)
     THEN /\ idx' = [idx EXCEPT !.i = 0, !.pos = 2,
                                !.mappingSize = file[1].v,
                                !.numberOfBytesRead = SizeofInt]
          /\ pc' = "ri_mapping"
     ELSE /\ idx' = idx
          /\ pc' = "ri_failed"
  /\ UNCHANGED <<file, SegVars, zfp>>

\* One pass of the loop over the mapping: both vectors get (value, idv).
RPI_Mapping ==
  /\ pc = "ri_mapping"
  /\ idx.i < idx.mappingSize
  /\ IF CanRead(file, idx.pos + 1)
     THEN LET idv == file[idx.pos].v
              value == file[idx.pos + 1].v
          IN /\ idx' = [idx EXCEPT
                          !.i = idx.i + 1,
                          !.pos = idx.pos + 2,
                          !.numberOfBytesRead =
                             idx.numberOfBytesRead + SizeofInt + SizeofDouble,
                          !.mappings = Append(idx.mappings, <<value, idv>>),
                          !.mappingsSortedPerValue =
                             Append(idx.mappingsSortedPerValue, <<value, idv>>)]
             /\ pc' = pc
     ELSE /\ idx' = idx
          /\ pc' = "ri_failed"
  /\ UNCHANGED <<file, SegVars, zfp>>

\* std::sort of both vectors, then nbConstraints = Read<int>(fm)
RPI_Sort ==
  /\ pc = "ri_mapping"
  /\ idx.i >= idx.mappingSize
  /\ \E byId \in SortByCmp(idx.mappings) :
       \E byValue \in SortByCmp2(idx.mappingsSortedPerValue) :
         IF CanRead(file, idx.pos)
         THEN /\ idx' = [idx EXCEPT
                           !.mappings = byId,
                           !.mappingsSortedPerValue = byValue,
                           !.i = 0,
                           !.nbConstraints = file[idx.pos].v,
                           !.pos = idx.pos + 1,
                           !.numberOfBytesRead =
                              idx.numberOfBytesRead + SizeofInt]
              /\ pc' = "ri_constraints"
         ELSE /\ idx' = [idx EXCEPT !.mappings = byId,
                                    !.mappingsSortedPerValue = byValue]
              /\ pc' = "ri_failed"
  /\ UNCHANGED <<file, SegVars, zfp>>

\* for(int i = 0; i < nbConstraints; ++i), with <= for < ...
MoreConstraintsInclusive(i, nbConstraints) == i <= nbConstraints

\* ... and as the code has it.
MoreConstraints(i, nbConstraints) == i < nbConstraints

\* One pass of the loop over the constraints: min and max follow the values.
RPI_Constraint ==
  /\ pc = "ri_constraints"
  /\ MoreConstraints(idx.i, idx.nbConstraints)
  /\ IF CanRead(file, idx.pos + 2)
     THEN LET idVertex == file[idx.pos].v
              value == file[idx.pos + 1].v
              vertexType == file[idx.pos + 2].v
          IN /\ idx' = [idx EXCEPT
                          !.i = idx.i + 1,
                          !.pos = idx.pos + 3,
                          !.numberOfBytesRead =
                             idx.numberOfBytesRead + 2 * SizeofInt
                               + SizeofDouble,
                          !.min = TrackMin(idx.i, value, idx.min),
                          !.max = TrackMax(idx.i, value, idx.max),
                          !.outConstraints =
                             Append(idx.outConstraints,
                                    <<idVertex, value, vertexType>>)]
             /\ pc' = pc
     ELSE /\ idx' = idx
          /\ pc' = "ri_failed"
  /\ UNCHANGED <<file, SegVars, zfp>>

\* return numberOfBytesRead;
RPI_Return ==
  /\ pc = "ri_constraints"
  /\ ~MoreConstraints(idx.i, idx.nbConstraints)
  /\ idx' = [idx EXCEPT !.rret = idx.numberOfBytesRead]
  /\ pc' = "ri_done"
  /\ UNCHANGED <<file, SegVars, zfp>>

\* ------------------------------------------------------------ ZFP adapter
ZfpIdle ==
  [decompress |-> FALSE, nx |-> 1, ny |-> 1, nz |-> 1, is2D |-> FALSE,
   n1 |-> 0, n2 |-> 0, rank |-> 0, status |-> 0, zfpsize |-> 0, ret |-> 0,
   freads |-> 0, fwrites |-> 0, headerCalls |-> 0, bodyCalls |-> 0,
   failed |-> FALSE]

\* bool is2D = nx == 1 || ny == 1 || nz == 1;
Is2D(nx, ny, nz) == nx = 1 \/ ny = 1 \/ nz = 1

\* if(nx + ny == 2 || ny + nz == 2 || nx + nz == 2), with the last pair
\* forgotten ...
Is1DTwoPairs(nx, ny, nz) == nx + ny = 2 \/ ny + nz = 2

\* ... and as the code has it.
Is1D(nx, ny, nz) == nx + ny = 2 \/ ny + nz = 2 \/ nx + nz = 2

\* n1 = nx != 1 ? nx : ny;
N1(nx, ny, nz) == IF nx # 1 THEN nx ELSE ny
\* n2 = nx != 1 && ny != 1 ? ny : nz;
N2(nx, ny, nz) == IF nx # 1 /\ ny # 1 THEN ny ELSE nz

IdleSegIdx == <<file, SegVars, idx>>

\* Entry: the grid's rank is decided, a one-dimensional grid is refused, the
\* field and the stream are set up.
Z_Begin ==
  /\ pc = "z_idle"
  /\ LET nx == zfp.nx  ny == zfp.ny  nz == zfp.nz  is2D == Is2D(nx, ny, nz) IN
       IF is2D /\ Is1D(nx, ny, nz)
       THEN /\ zfp' = [zfp EXCEPT !.is2D = is2D, !.ret = 0]
            /\ pc' = "z_done"
       ELSE /\ zfp' = [zfp EXCEPT
                         !.is2D = is2D,
                         !.n1 = IF is2D THEN N1(nx, ny, nz) ELSE 0,
                         !.n2 = IF is2D THEN N2(nx, ny, nz) ELSE 0,
                         !.rank = IF is2D THEN 2 ELSE 3,
                         !.status = 0,
                         !.zfpsize = 0]
            /\ pc' = IF zfp.decompress THEN "z_fread" ELSE "z_wheader"
  /\ UNCHANGED IdleSegIdx

\* zfpsize += fread(buffer.data(), 1, bufsize, file);
Z_Fread ==
  /\ pc = "z_fread"
  /\ \E n \in 0 .. MaxZfpBytes :
       zfp' = [zfp EXCEPT !.zfpsize = zfp.zfpsize + n,
                          !.freads = zfp.freads + 1]
  /\ pc' = "z_rheader"
  /\ UNCHANGED IdleSegIdx

\* res = zfp_read_header(...); if(res == 0) status = 1;
Z_ReadHeader ==
  /\ pc = "z_rheader"
  /\ \E ok \in BOOLEAN :
       zfp' = [zfp EXCEPT !.status = IF ok THEN zfp.status ELSE 1,
                          !.headerCalls = zfp.headerCalls + 1,
                          !.failed = zfp.failed \/ ~ok]
  /\ pc' = "z_decompress"
  /\ UNCHANGED IdleSegIdx

\* if(!zfp_decompress(zfp, field)) status = 1;
Z_Decompress ==
  /\ pc = "z_decompress"
  /\ \E ok \in BOOLEAN :
       zfp' = [zfp EXCEPT !.status = IF ok THEN zfp.status ELSE 1,
                          !.bodyCalls = zfp.bodyCalls + 1,
                          !.failed = zfp.failed \/ ~ok]
  /\ pc' = "z_return"
  /\ UNCHANGED IdleSegIdx

\* res = zfp_write_header(...); if(res == 0) status = 1;
Z_WriteHeader ==
  /\ pc = "z_wheader"
  /\ \E ok \in BOOLEAN :
       zfp' = [zfp EXCEPT !.status = IF ok THEN zfp.status ELSE 1,
                          !.headerCalls = zfp.headerCalls + 1,
                          !.failed = zfp.failed \/ ~ok]
  /\ pc' = "z_compress"
  /\ UNCHANGED IdleSegIdx

\* zfpsize += zfp_compress(zfp, field);
\* if(!zfpsize) status = 1; else fwrite(buffer.data(), 1, zfpsize, file);
Z_Compress ==
  /\ pc = "z_compress"
  /\ \E n \in 0 .. MaxZfpBytes :
       LET size == zfp.zfpsize + n IN
         zfp' = [zfp EXCEPT !.zfpsize = size,
                            !.status = IF size = 0 THEN 1 ELSE zfp.status,
                            !.fwrites = IF size = 0 THEN zfp.fwrites
                                        ELSE zfp.fwrites + 1,
                            !.bodyCalls = zfp.bodyCalls + 1,
                            !.failed = zfp.failed \/ n = 0]
  /\ pc' = "z_return"
  /\ UNCHANGED IdleSegIdx

\* The clean-up, the message when status != 0, and return (int)zfpsize;
Z_Return ==
  /\ pc = "z_return"
  /\ zfp' = [zfp EXCEPT !.ret = zfp.zfpsize]
  /\ pc' = "z_done"
  /\ UNCHANGED IdleSegIdx

\* ------------------------------------------------------------ specification

Init ==
  /\ pc = "idle"
  /\ numberOfVertices \in 0 .. MaxN
  /\ numberOfSegments \in SegCounts
  /\ \E p \in Patterns :
       segmentation =
         [i \in 1 .. numberOfVertices |-> SegValue(p, i - 1, numberOfSegments)]
  /\ tail = 0
  /\ file = Header(numberOfVertices, numberOfSegments)
  /\ run = 1
  /\ firstOut = <<>>
  /\ dropped = 0
  /\ enc = EncIdle
  /\ dec = DecIdle
  /\ decoded = <<>>
  /\ idx = IdxIdle
  /\ zfp = ZfpIdle

Next ==
  \/ W_Begin
  \/ W_Outer
  \/ W_Inner
  \/ W_Fault
  \/ W_Last
  \/ W_Split
  \/ W_Again
  \/ Truncate
  \/ R_Begin
  \/ R_Outer
  \/ R_Inner
  \/ R_Carry

Spec == Init /\ [][Next]_vars

\* The steps inside a call of the segmentation codec: once a call has begun,
\* the thread that runs it goes on to its next statement.
CallStep ==
  \/ W_Outer
  \/ W_Inner
  \/ W_Fault
  \/ W_Last
  \/ W_Split
  \/ R_Outer
  \/ R_Inner
  \/ R_Carry

\* One encode and one decode of a vector of at most MaxLiveN entries, each the
\* largest identifier (no loop test reads the values), with calls that do not
\* stop half-way.
InitLive ==
  /\ Init
  /\ numberOfVertices <= MaxLiveN
  /\ \A i \in 1 .. numberOfVertices :
       segmentation[i] = SegValue(2, i - 1, numberOfSegments)

NextLive ==
  \/ W_Begin
  \/ CallStep
  \/ R_Begin

SpecLive == InitLive /\ [][NextLive]_vars /\ WF_vars(CallStep)

\* The index codec: a table pair is written, then read back.
InitIndex ==
  /\ pc = "i_idle"
  /\ numberOfVertices = 0
  /\ numberOfSegments = 1
  /\ segmentation = <<>>
  /\ tail = 0
  /\ file = <<>>
  /\ run = 1
  /\ firstOut = <<>>
  /\ dropped = 0
  /\ enc = EncIdle
  /\ dec = DecIdle
  /\ decoded = <<>>
  /\ \E m \in MappingTables, c \in ConstraintLists :
       \E lo \in EntryValues, hi \in EntryValues :
         idx = [IdxIdle EXCEPT !.mapping = m, !.constraints = c,
                               !.min = lo, !.max = hi,
                               !.entryMin = lo, !.entryMax = hi]
  /\ zfp = ZfpIdle

NextIndex ==
  \/ WPI_Begin
  \/ WPI_Mapping
  \/ WPI_NbConstraints
  \/ WPI_Constraint
  \/ WPI_Return
  \/ RPI_Begin
  \/ RPI_Mapping
  \/ RPI_Sort
  \/ RPI_Constraint
  \/ RPI_Return

SpecIndex == InitIndex /\ [][NextIndex]_vars

\* The ZFP adapter: one call, on any grid shape, in either direction.
InitZfp ==
  /\ pc = "z_idle"
  /\ numberOfVertices = 0
  /\ numberOfSegments = 1
  /\ segmentation = <<>>
  /\ tail = 0
  /\ file = <<>>
  /\ run = 1
  /\ firstOut = <<>>
  /\ dropped = 0
  /\ enc = EncIdle
  /\ dec = DecIdle
  /\ decoded = <<>>
  /\ idx = IdxIdle
  /\ \E d \in BOOLEAN, x, y, z \in 1 .. MaxDim :
       zfp = [ZfpIdle EXCEPT !.decompress = d, !.nx = x, !.ny = y, !.nz = z]

NextZfp ==
  \/ Z_Begin
  \/ Z_Fread
  \/ Z_ReadHeader
  \/ Z_Decompress
  \/ Z_WriteHeader
  \/ Z_Compress
  \/ Z_Return

SpecZfp == InitZfp /\ [][NextZfp]_vars

\* The four stream functions together: a run is one of the segmentation codec
\* or one of the index codec.
InitAll == Init \/ InitIndex

NextAll == Next \/ NextIndex

SpecAll == InitAll /\ [][NextAll]_vars

\* ------------------------------------------------------------ claims
RECURSIVE ByteLen(_)
\* The bytes the items of f take.
ByteLen(f) == IF f = <<>> THEN 0 ELSE Head(f).sz + ByteLen(Tail(f))

\* ceil(a / b) for b > 0
CeilDiv(a, b) == (a + (b - 1)) \div b

\* The encoder has returned and the stream is as it left it.
Encoded == pc = "w_done" /\ run = 1 /\ dropped = 0

\* The decoder has ended (returned or failed) on the whole stream of an encode.
DecodedWhole ==
  pc \in {"r_done", "r_failed"} /\ dec.from = "w_done" /\ dropped = 0

\* The stream the decoder was given ends before the words its header asks for.
Truncated ==
  /\ dec.from # "none"
  /\ dropped > 0 \/ (dec.from = "idle" /\ numberOfVertices >= 1)

\* C1: segmentation round trip. For N >= 1 and S >= 1, decoding the stream that
\* holds N, S and the words the encoder wrote returns normally and gives back
\* seg[i] at every index i < N.
C1_RoundTrip ==
  (DecodedWhole /\ numberOfVertices >= 1 /\ numberOfSegments >= 1)
    => /\ pc = "r_done"
       /\ dec.ret >= 0
       /\ Len(decoded) >= numberOfVertices
       /\ \A i \in 1 .. numberOfVertices : decoded[i] = segmentation[i]

\* A round trip of w = 3 over more than two words, one of them with bit 31 set.
C1_Witness ==
  /\ DecodedWhole
  /\ pc = "r_done"
  /\ numberOfSegments = 5
  /\ numberOfVertices >= 22
  /\ \E k \in 3 .. Len(file) : file[k].v < 0
  /\ SubSeq(decoded, 1, numberOfVertices) = segmentation

\* C2: decoded length. After a successful decode the output vector holds
\* exactly the numberOfVertices values the header declares.
C2_DecodedLength ==
  (pc = "r_done" /\ dec.ret >= 0) => Len(decoded) = dec.N

\* C3: packed size. For N >= 1 and S >= 1 the encoder writes exactly
\* ceil(N * w / 32) words.
C3_PackedSize ==
  (Encoded /\ numberOfVertices >= 1 /\ numberOfSegments >= 1)
    => Len(file) - 2 = CeilDiv(numberOfVertices * enc.bits, WordBits)

\* a is an arrangement of the elements of b.
IsPermOf(a, b) ==
  /\ Len(a) = Len(b)
  /\ \E f \in [1 .. Len(a) -> 1 .. Len(a)] :
       /\ \A i, j \in 1 .. Len(a) : i # j => f[i] # f[j]
       /\ \A i \in 1 .. Len(a) : a[i] = b[f[i]]

\* The k-th components of s never fall from one element to the next.
AscendingBy(s, k) == \A i, j \in 1 .. Len(s) : i < j => s[i][k] <= s[j][k]

ConstraintValueSet == {idx.constraints[i][2] : i \in 1 .. Len(idx.constraints)}

\* C4: index round trip. Reading back what WritePersistenceIndex(m, c) wrote
\* gives m ordered by vertex id, m ordered by value, c as written, its length,
\* and (for a non-empty c) the least and the greatest constraint value.
C4_IndexRoundTrip ==
  pc = "ri_done"
    => /\ IsPermOf(idx.mappings, idx.mapping)
       /\ AscendingBy(idx.mappings, 2)
       /\ IsPermOf(idx.mappingsSortedPerValue, idx.mapping)
       /\ AscendingBy(idx.mappingsSortedPerValue, 1)
       /\ idx.outConstraints = idx.constraints
       /\ idx.nbConstraints = Len(idx.constraints)
       /\ Len(idx.constraints) >= 1
            => /\ idx.min \in ConstraintValueSet
               /\ idx.max \in ConstraintValueSet
               /\ \A v \in ConstraintValueSet : idx.min <= v /\ v <= idx.max

\* A table out of order both ways and a list whose minimum comes second have
\* been read back.
C4_Witness ==
  /\ pc = "ri_done"
  /\ Len(idx.mapping) = 2
  /\ idx.mapping[1][2] > idx.mapping[2][2]
  /\ idx.mapping[1][1] > idx.mapping[2][1]
  /\ Len(idx.constraints) = 2
  /\ idx.constraints[2][2] < idx.constraints[1][2]
  /\ idx.min = idx.constraints[2][2]
  /\ idx.max = idx.constraints[1][2]

\* C5: encode determinism. A second encode of the same (seg, N, S) leaves the
\* same stream as the first.
C5_Deterministic ==
  (pc = "w_done" /\ run = 2) => file = firstOut

\* C6 as stated: a rejected bit width leaves the stream cursor where it was at
\* call entry.
C6_StreamUntouched ==
  /\ (pc = "r_done" /\ dec.ret < 0) => dec.pos = 1
  /\ (pc = "w_done" /\ enc.ret < 0) => Len(file) = 2

\* C6 amended: the encoder rejects before it writes anything; the decoder
\* rejects after it has consumed the two header ints (8 bytes) and nothing
\* else, with nothing put into the output vector.
C6_HeaderOnly ==
  /\ (pc = "r_done" /\ dec.ret < 0)
       => /\ dec.pos = 3
          /\ ByteLen(SubSeq(file, 1, dec.pos - 1)) = 2 * SizeofInt
          /\ dec.numberOfBytesRead = 2 * SizeofInt
          /\ decoded = <<>>
  /\ (pc = "w_done" /\ enc.ret < 0) => Len(file) = 2

\* The decoder has rejected a zero width.
C6_Witness == pc = "r_done" /\ dec.ret = ErrZeroWidth /\ dec.S = 0

\* C7: truncated stream. A decode of a stream that ends before all the words
\* of the declared numberOfVertices does not return a normal byte count.
C7_TruncatedFails ==
  Truncated => ~(pc = "r_done" /\ dec.ret >= 0)

\* The stream ran out after some words had been decoded.
C7_Witness ==
  /\ pc = "r_failed"
  /\ dropped = 1
  /\ dec.currentCell > 0
  /\ dec.currentCell < dec.N

\* What CompressWithZFP returns when no backend step reports a failure: the
\* bytes fread gave (decompress), the bytes zfp_compress produced (compress).
SuccessReturns(decompress) ==
  IF decompress THEN 0 .. MaxZfpBytes ELSE 1 .. MaxZfpBytes

\* C8: backend failure is surfaced. When a header or a (de)compress step has
\* reported failure, the value returned is none a successful call returns, and
\* no step was run twice.
C8_FailureSurfaced ==
  (pc = "z_done" /\ zfp.failed)
    => /\ zfp.ret \notin SuccessReturns(zfp.decompress)
       /\ zfp.headerCalls <= 1
       /\ zfp.bodyCalls <= 1

\* How many of the three dimensions are 1.
OnesOf(z) ==
  (IF z.nx = 1 THEN 1 ELSE 0) + (IF z.ny = 1 THEN 1 ELSE 0)
    + (IF z.nz = 1 THEN 1 ELSE 0)

\* The dimensions that are not 1, in order.
WideDims(z) == SelectSeq(<<z.nx, z.ny, z.nz>>, LAMBDA d : d # 1)

\* The call was refused at entry.
ZfpRefused == pc = "z_done" /\ zfp.rank = 0

\* C9: rank rejection. The call is refused (returns 0, no stream I/O) exactly
\* when two of nx, ny, nz are 1; with one of them 1 the grid is 2-D over the
\* other two in order; otherwise it is 3-D.
C9_RankRejection ==
  pc # "z_idle"
    => /\ ZfpRefused <=> OnesOf(zfp) >= 2
       /\ ZfpRefused => zfp.ret = 0 /\ zfp.freads = 0 /\ zfp.fwrites = 0
       /\ OnesOf(zfp) = 1
            => zfp.rank = 2 /\ <<zfp.n1, zfp.n2>> = WideDims(zfp)
       /\ OnesOf(zfp) = 0 => zfp.rank = 3

\* A grid with nx = nz = 1 has been refused.
C9_Witness ==
  /\ ZfpRefused
  /\ zfp.nx = 1
  /\ zfp.ny = MaxDim
  /\ zfp.nz = 1

\* C10: single segment. With numberOfSegments = 1 the width is 1, and N >= 1
\* zeros take ceil(N / 32) words.
C10_SingleSegment ==
  (Encoded /\ numberOfSegments = 1 /\ numberOfVertices >= 1)
    => /\ enc.bits = 1
       /\ \A i \in 1 .. numberOfVertices : segmentation[i] = 0
       /\ Len(file) - 2 = CeilDiv(numberOfVertices, WordBits)

\* 33 zeros of one segment fill a second word.
C10_Witness ==
  /\ Encoded
  /\ numberOfSegments = 1
  /\ numberOfVertices = 33
  /\ Len(file) - 2 = 2

\* C11: in-bounds input access. With a vector of exactly N entries, N >= 1 and
\* S >= 1, the encoder reads segmentation[currentCell] only at indices below N.
C11_InBounds ==
  (numberOfVertices >= 1 /\ numberOfSegments >= 1
     /\ Len(segmentation) = numberOfVertices)
    => enc.maxIndexRead < numberOfVertices

\* The entries of s whose value is v, in the order s has them.
WithValue(s, v) == SelectSeq(s, LAMBDA t : t[1] = v)

\* C12: stable value order. In mappingsSortedPerValue, entries of equal value
\* stand in the order in which they were read from the stream.
C12_StableValueOrder ==
  pc = "ri_done"
    => \A v \in MappingValues :
         WithValue(idx.mappingsSortedPerValue, v) = WithValue(idx.mapping, v)

RECURSIVE Pow2(_)
\* 2^n
Pow2(n) == IF n <= 0 THEN 1 ELSE 2 * Pow2(n - 1)

\* Every identifier v in [0, S) satisfies v < 2^w.
FitsIds(w, S) == S <= Pow2(w)

\* Every v in [0, S], the count S included, satisfies v < 2^w.
FitsCount(w, S) == S < Pow2(w)

\* The encoder, and the decoder, have derived their width.
EncWidthSet == pc \in {"w_outer", "w_inner", "w_done"}
DecWidthSet == pc \in {"r_outer", "r_inner", "r_done"}

\* C13 as stated: for S >= 1 the width w = log2(S) + 1 is the least number of
\* bits that holds every identifier in [0, S).
C13_MinimalWidth ==
  numberOfSegments >= 1
    => /\ EncWidthSet
            => /\ FitsIds(enc.bits, numberOfSegments)
               /\ ~(enc.bits >= 1 /\ FitsIds(enc.bits - 1, numberOfSegments))
       /\ DecWidthSet
            => /\ FitsIds(dec.bits, dec.S)
               /\ ~(dec.bits >= 1 /\ FitsIds(dec.bits - 1, dec.S))

\* C13 amended: for S >= 1 the width is the least number of bits that holds the
\* count S itself (2^(w-1) <= S < 2^w). It holds every identifier in [0, S), and
\* is one bit more than they need exactly when S is a power of two.
C13_WidthOfCount ==
  numberOfSegments >= 1
    => /\ EncWidthSet
            => /\ enc.bits >= 1
               /\ FitsCount(enc.bits, numberOfSegments)
               /\ ~FitsCount(enc.bits - 1, numberOfSegments)
               /\ FitsIds(enc.bits, numberOfSegments)
               /\ FitsIds(enc.bits - 1, numberOfSegments)
                    <=> numberOfSegments = Pow2(enc.bits - 1)
       /\ DecWidthSet
            => /\ dec.bits >= 1
               /\ FitsCount(dec.bits, dec.S)
               /\ ~FitsCount(dec.bits - 1, dec.S)
               /\ FitsIds(dec.bits, dec.S)
               /\ FitsIds(dec.bits - 1, dec.S) <=> dec.S = Pow2(dec.bits - 1)

\* Four segments have been encoded and decoded with three bits each, where two
\* would hold the identifiers 0 .. 3.
C13_Witness ==
  /\ pc = "r_done"
  /\ dec.from = "w_done"
  /\ numberOfSegments = 4
  /\ enc.bits = 3
  /\ dec.bits = 3
  /\ FitsIds(2, numberOfSegments)

\* ReadPersistenceIndex has read nbConstraints from the stream.
ConstraintCountRead ==
  /\ pc \in {"ri_constraints", "ri_done", "ri_failed"}
  /\ idx.pos >= 3 + 2 * idx.mappingSize

\* C14: zero constraints. When the stream declares nbConstraints = 0,
\* ReadPersistenceIndex does not fail, appends nothing to constraints, leaves
\* the caller's min and max as they were at entry, and returns its byte count.
C14_ZeroConstraints ==
  (ConstraintCountRead /\ idx.nbConstraints = 0)
    => /\ pc # "ri_failed"
       /\ idx.outConstraints = <<>>
       /\ idx.min = idx.entryMin
       /\ idx.max = idx.entryMax
       /\ pc = "ri_done" => idx.rret = idx.numberOfBytesRead /\ idx.rret >= 0

\* A table of some entries and no constraint has been read back, by a caller
\* whose min and max differed.
C14_Witness ==
  /\ pc = "ri_done"
  /\ idx.constraints = <<>>
  /\ idx.nbConstraints = 0
  /\ Len(idx.mappings) >= 1
  /\ idx.entryMin = 9
  /\ idx.entryMax = -1
  /\ idx.min = 9
  /\ idx.max = -1

\* The bytes of the items of f before position pos: what a reader at pos has
\* consumed.
Consumed(f, pos) == ByteLen(SubSeq(f, 1, pos - 1))

\* C15: byte accounting. A successful WriteCompactSegmentation returns the bytes
\* it appended behind the header and a successful ReadCompactSegmentation the
\* bytes it consumed; WritePersistenceIndex returns the bytes it appended and
\* ReadPersistenceIndex the bytes it consumed, both
\* 8 + 12 * |mapping| + 16 * |constraints|.
C15_ByteAccounting ==
  /\ (pc = "w_done" /\ dropped = 0 /\ enc.ret >= 0)
       => enc.ret = ByteLen(file) - ByteLen(Header(0, 0))
  /\ (pc = "r_done" /\ dec.ret >= 0) => dec.ret = Consumed(file, dec.pos)
  /\ pc \in {"wi_done", "ri_mapping", "ri_constraints", "ri_done"}
       => /\ idx.wret = ByteLen(file)
          /\ idx.wret = 8 + 12 * Len(idx.mapping) + 16 * Len(idx.constraints)
  /\ pc = "ri_done"
       => /\ idx.rret = Consumed(file, idx.pos)
          /\ idx.pos = Len(file) + 1
          /\ idx.rret = idx.wret

\* Two mapping entries and two constraints have been written and read back:
\* 64 bytes each way.
C15_Witness ==
  /\ pc = "ri_done"
  /\ Len(idx.mapping) = 2
  /\ Len(idx.constraints) = 2
  /\ idx.wret = 64
  /\ idx.rret = 64

\* A call of the encoder, or of the decoder on the whole stream of an encode,
\* is under way with S >= 1.
Encoding == pc \in {"w_outer", "w_inner"} /\ numberOfSegments >= 1
Decoding ==
  /\ pc \in {"r_outer", "r_inner"}
  /\ dec.from = "w_done"
  /\ dropped = 0
  /\ dec.S >= 1

\* The call under way has returned normally, with every entry dealt with. (A
\* decode never turns into an encode, so a decode under way can only reach the
\* second case, and an encode under way reaches the first one first.)
Returned ==
  \/ pc = "w_done" /\ enc.currentCell >= numberOfVertices
  \/ pc = "r_done" /\ dec.ret >= 0 /\ dec.currentCell >= dec.N

\* A word written with currentCell where the word before left it is written
\* with a smaller offset: such words cannot go on for ever.
WordsAdvance ==
  numberOfSegments >= 1
    => \A k \in 1 .. Len(enc.trace) - 1 :
         \/ enc.trace[k + 1].currentCell > enc.trace[k].currentCell
         \/ /\ enc.trace[k + 1].currentCell = enc.trace[k].currentCell
            /\ enc.trace[k + 1].offset < enc.trace[k].offset

\* C16: termination. For N >= 0 and S >= 1 a call of the encoder returns, with
\* currentCell at or past N; a call of the decoder on the stream the encoder
\* left returns normally, with currentCell at or past N; and every word written
\* either advances currentCell or lowers offset.
C16_Termination ==
  /\ (Encoding \/ Decoding) ~> Returned
  /\ [][Decoding => pc' \in {"r_outer", "r_inner", "r_done", "r_failed"}]_vars
  /\ []WordsAdvance

\* Both calls have returned for a vector of the widest segments, several of
\* whose words were written without currentCell advancing.
C16_Witness ==
  /\ pc = "r_done"
  /\ dec.from = "w_done"
  /\ dropped = 0
  /\ numberOfSegments = 67108865
  /\ numberOfVertices >= 2
  /\ Len(file) - 2 > 2 * numberOfVertices
  /\ enc.currentCell >= numberOfVertices
  /\ dec.currentCell >= dec.N

\* C17: symmetric validation. A numberOfSegments for which the decoder returns a
\* negative code is one the encoder rejects too: its call ends, with a negative
\* code and nothing written.
C17_SymmetricValidation ==
  (pc \in {"w_outer", "w_inner", "w_done", "w_fault"}
     /\ RejectCode(BitsPerSegment(numberOfSegments)) < 0)
    => /\ pc = "w_done"
       /\ enc.ret < 0
       /\ Len(file) = 2

\* The decoder's locals are those the encoder had when it wrote its k-th word.
SameMark(k) ==
  /\ dec.offset = enc.trace[k].offset
  /\ dec.currentCell = enc.trace[k].currentCell
  /\ (dec.maskerRank # 0) = enc.trace[k].carry

\* The words the decoder has read so far.
WordsRead == dec.pos - 3

\* C18 as stated: on the stream of an encode with S >= 1, the decoder, when it
\* is done with its k-th word (past its carry block), has the offset and the
\* currentCell the encoder had when it wrote its k-th word, and a non-zero
\* maskerRank exactly when the encoder had one; it reads as many words as the
\* encoder wrote.
C18_LockstepEveryWord ==
  (pc \in {"r_outer", "r_done"} /\ dec.from = "w_done" /\ dropped = 0
     /\ numberOfSegments >= 1 /\ dec.ret >= 0)
    => /\ WordsRead <= Len(enc.trace)
       /\ WordsRead >= 1 => SameMark(WordsRead)
       /\ pc = "r_done" => WordsRead = Len(enc.trace)

\* C18 amended: the same for every word but the last one; for the last one,
\* which the encoder writes at its break (line 311) and not past its carry
\* block, the locals agree at the end of the decoder's inner loop, before its
\* carry block changes them. The decoder never wants a word the encoder did
\* not write and returns having read them all.
C18_Lockstep ==
  (pc \in {"r_outer", "r_inner", "r_done", "r_failed"} /\ dec.from = "w_done"
     /\ dropped = 0 /\ numberOfSegments >= 1)
    => /\ pc # "r_failed"
       /\ WordsRead <= Len(enc.trace)
       /\ (pc = "r_outer" /\ WordsRead >= 1 /\ ~enc.trace[WordsRead].last)
            => SameMark(WordsRead)
       /\ (pc = "r_inner" /\ dec.offset + dec.bits > WordBits
             /\ enc.trace[WordsRead].last)
            => SameMark(WordsRead)
       /\ pc = "r_done"
            => WordsRead = Len(enc.trace) /\ WordsRead = Len(file) - 2

\* The decoder is past a word that was written, like the one before it, with a
\* segment carried over and currentCell not advanced.
C18_Witness ==
  /\ pc = "r_outer"
  /\ dec.from = "w_done"
  /\ dropped = 0
  /\ numberOfSegments >= 1
  /\ WordsRead >= 2
  /\ WordsRead < Len(enc.trace)
  /\ enc.trace[WordsRead].carry
  /\ enc.trace[WordsRead].currentCell = enc.trace[WordsRead - 1].currentCell
  /\ SameMark(WordsRead)

\* The counts a shift of a 32-bit int may be executed with.
ShiftCounts == 0 .. WordBits - 1

\* C19: shift and offset ranges. For S >= 1, in the encoder and in the decoder,
\* offset stays in 0 .. 32 and is in 0 .. 31 where a word begins, maskerRank
\* stays in 0 .. 31, and every shift is executed with a count in 0 .. 31.
C19_ShiftRanges ==
  numberOfSegments >= 1
    => /\ enc.offset \in 0 .. WordBits
       /\ enc.maskerRank \in ShiftCounts
       /\ enc.shifts \subseteq ShiftCounts
       /\ pc = "w_outer" => enc.offset \in ShiftCounts
       /\ dec.offset \in 0 .. WordBits
       /\ dec.maskerRank \in ShiftCounts
       /\ dec.shifts \subseteq ShiftCounts
       /\ pc = "r_outer" => dec.offset \in ShiftCounts

\* Words of 27-bit segments have been written and read back with shifts by 0
\* and by 31 among those executed, offsets up to 32 and carries on both sides.
C19_Witness ==
  /\ pc = "r_done"
  /\ dec.from = "w_done"
  /\ dropped = 0
  /\ numberOfSegments = 67108865
  /\ 0 \in enc.shifts
  /\ 31 \in dec.shifts
  /\ Cardinality(enc.shifts) >= 8
  /\ Cardinality(dec.shifts) >= 8
  /\ \E k \in 1 .. Len(enc.trace) : enc.trace[k].carry

====
